---- MODULE Spec2Model ----
(***************************************************************************)
(* Model of the npm install/ci command of jfrog-cli-core                   *)
(* (artifactory/commands/npm/installorci.go): the run pipeline with its    *)
(* .npmrc backup/restore discipline, the dependency tree parser, the       *)
(* concurrent checksum enrichment and the manifest assembly.               *)
(*                                                                         *)
(* Text (config lines, npm arguments) is a sequence of one-character       *)
(* strings; dependency names, versions and identities are TLA+ strings,    *)
(* joined with \o as the code joins them with +.                           *)
(***************************************************************************)
EXTENDS Integers, Sequences, FiniteSets, TLC

\* ------------------------------------------------------------------ bounds

\* Largest --threads value tried (the smallest is -1).
MaxThreads == 2

\* Largest number of entries of an npm ls tree the parser is run on.
MaxNodes == 3

\* Largest number of lines of an npm config dump the translator is run on.
MaxDumpLen == 3

\* ------------------------------------------------------- program constants

\* typeRestriction (iota constants).
defaultRestriction == 0
all == 1
devOnly == 2
prodOnly == 3

\* clientutils.NewErrorsQueue(1).
ErrorsQueueSize == 1

\* Mutant of FailFast: the runner is created fail-fast.
FailFastOn == TRUE

\* parallel.NewBounedRunner(nca.threads, false): failFast.
FailFast == FALSE

\* parallel.NewBounedRunner: the tasks channel holds this many queued tasks.
TasksCapacity == 1

\* File contents of the project .npmrc and of its backup.
Absent == "absent"
Orig == "orig"
Temp == "temp"

\* A nil error.
NilErr == <<>>

\* A nil *buildinfo.Checksum.
NilChecksum == [src |-> "nil", id |-> ""]

\* A tree entry that has no "version" field.
NoVersion == "<none>"

\* nca.packageInfo.BuildInfoModuleId().
ModuleId == "app:1.0.0"

\* ------------------------------------------------------------ text helpers

\* strings.HasPrefix on character sequences.
HasPrefix(s, p) == Len(s) >= Len(p) /\ SubSeq(s, 1, Len(p)) = p

\* strings.HasSuffix.
HasSuffix(s, p) == Len(s) >= Len(p) /\ SubSeq(s, Len(s) - Len(p) + 1, Len(s)) = p

\* strings.Contains.
Contains(s, sub) ==
    \E i \in 1..(Len(s) - Len(sub) + 1) : SubSeq(s, i, i + Len(sub) - 1) = sub

\* unicode.IsSpace, on the characters the inputs use.
IsSpace(c) == c \in {" ", "\t"}

\* strings.TrimSpace.
RECURSIVE TrimLeft(_)
TrimLeft(s) == IF s /= <<>> /\ IsSpace(Head(s)) THEN TrimLeft(Tail(s)) ELSE s

RECURSIVE TrimRight(_)
TrimRight(s) ==
    IF s /= <<>> /\ IsSpace(s[Len(s)]) THEN TrimRight(SubSeq(s, 1, Len(s) - 1)) ELSE s

TrimSpace(s) == TrimRight(TrimLeft(s))

\* Position of the first "=" of a line, 0 when there is none.
IndexEq(s) ==
    IF \E i \in 1..Len(s) : s[i] = "="
    THEN CHOOSE i \in 1..Len(s) : s[i] = "=" /\ \A j \in 1..(i - 1) : s[j] /= "="
    ELSE 0

\* strings.SplitN(currOption, "=", 2).
SplitN2(s) ==
    IF IndexEq(s) = 0 THEN <<s>>
    ELSE <<SubSeq(s, 1, IndexEq(s) - 1), SubSeq(s, IndexEq(s) + 1, Len(s))>>

\* strings.Split(s, ","): the pieces between the commas, at least one.
RECURSIVE SplitComma(_)
SplitComma(s) ==
    IF \E i \in 1..Len(s) : s[i] = ","
    THEN LET i == CHOOSE i \in 1..Len(s) : s[i] = "," /\ \A j \in 1..(i - 1) : s[j] /= ","
         IN <<SubSeq(s, 1, i - 1)>> \o SplitComma(SubSeq(s, i + 1, Len(s)))
    ELSE <<s>>

\* strings.Join(pieces, "").
RECURSIVE Join(_)
Join(pieces) == IF pieces = <<>> THEN <<>> ELSE Head(pieces) \o Join(Tail(pieces))

\* strconv.FormatBool.
FormatBool(b) == IF b THEN <<"t", "r", "u", "e">> ELSE <<"f", "a", "l", "s", "e">>

\* ------------------------------------------------------- ConfigTranslator

\* Mutant of isValidKey: the json key is let through.
isValidKeyAllowsJson(key) ==
    /\ ~HasPrefix(key, <<"/", "/">>)
    /\ ~HasPrefix(key, <<";">>)
    /\ ~HasPrefix(key, <<"@">>)
    /\ key /= <<"r", "e", "g", "i", "s", "t", "r", "y">>
    /\ key /= <<"m", "e", "t", "r", "i", "c", "s", "-", "r", "e", "g", "i", "s", "t", "r", "y">>

isValidKey(key) ==
    /\ ~HasPrefix(key, <<"/", "/">>)
    /\ ~HasPrefix(key, <<";">>)
    /\ ~HasPrefix(key, <<"@">>)
    /\ key /= <<"r", "e", "g", "i", "s", "t", "r", "y">>
    /\ key /= <<"m", "e", "t", "r", "i", "c", "s", "-", "r", "e", "g", "i", "s", "t", "r", "y">>
    /\ key /= <<"j", "s", "o", "n">>

\* Mutant of setTypeRestriction: omit is applied only while the restriction is
\* the default one, like only and production.
setTypeRestrictionOmitOnce(tr, key, value) ==
    IF tr /= defaultRestriction THEN tr
    ELSE IF key = <<"o", "m", "i", "t">>
         THEN IF Contains(value, <<"d", "e", "v">>) THEN prodOnly ELSE all
         ELSE IF key = <<"o", "n", "l", "y">>
              THEN IF Contains(value, <<"p", "r", "o", "d">>) THEN prodOnly
                   ELSE IF Contains(value, <<"d", "e", "v">>) THEN devOnly
                   ELSE tr
              ELSE IF key = <<"p", "r", "o", "d", "u", "c", "t", "i", "o", "n">>
                      /\ Contains(value, <<"t", "r", "u", "e">>)
                   THEN prodOnly
                   ELSE tr

\* Mutant of setTypeRestriction: only and production are applied whatever the
\* restriction is.
setTypeRestrictionLastWins(tr, key, value) ==
    IF key = <<"o", "m", "i", "t">>
    THEN IF Contains(value, <<"d", "e", "v">>) THEN prodOnly ELSE all
    ELSE IF key = <<"o", "n", "l", "y">>
         THEN IF Contains(value, <<"p", "r", "o", "d">>) THEN prodOnly
              ELSE IF Contains(value, <<"d", "e", "v">>) THEN devOnly
              ELSE tr
         ELSE IF key = <<"p", "r", "o", "d", "u", "c", "t", "i", "o", "n">>
                 /\ Contains(value, <<"t", "r", "u", "e">>)
              THEN prodOnly
              ELSE tr

\* setTypeRestriction: the restriction after one key/value pair.
setTypeRestriction(tr, key, value) ==
    IF key = <<"o", "m", "i", "t">>
    THEN IF Contains(value, <<"d", "e", "v">>) THEN prodOnly ELSE all
    ELSE IF tr = defaultRestriction
         THEN IF key = <<"o", "n", "l", "y">>
              THEN IF Contains(value, <<"p", "r", "o", "d">>) THEN prodOnly
                   ELSE IF Contains(value, <<"d", "e", "v">>) THEN devOnly
                   ELSE tr
              ELSE IF key = <<"p", "r", "o", "d", "u", "c", "t", "i", "o", "n">>
                      /\ Contains(value, <<"t", "r", "u", "e">>)
                   THEN prodOnly
                   ELSE tr
         ELSE tr

\* addArrayConfigs: one "key[] = val" line per element of the array value.
RECURSIVE AddEach(_, _, _)
AddEach(conf, key, valuesSlice) ==
    IF valuesSlice = <<>> THEN conf
    ELSE AddEach(conf \o <<key \o <<"[", "]", " ", "=", " ">> \o Head(valuesSlice), <<"\n">>>>,
                 key, Tail(valuesSlice))

addArrayConfigs(conf, key, arrayValue) ==
    IF arrayValue = <<"[", "]">> THEN conf
    ELSE AddEach(conf, key, SplitComma(SubSeq(arrayValue, 2, Len(arrayValue) - 1)))

\* filteredConf after one line of the dump (prepareConfigData's loop body).
ConfAfterLine(conf, currOption, registry) ==
    IF currOption = <<>> THEN conf
    ELSE LET splitOption == SplitN2(currOption)
             key == TrimSpace(splitOption[1])
         IN IF Len(splitOption) = 2 /\ isValidKey(key)
            THEN LET value == TrimSpace(splitOption[2])
                 IN IF HasPrefix(value, <<"[">>) /\ HasSuffix(value, <<"]">>)
                    THEN addArrayConfigs(conf, key, value)
                    ELSE conf \o <<currOption, <<"\n">>>>
            ELSE IF HasPrefix(splitOption[1], <<"@">>)
                 THEN conf \o <<splitOption[1], <<" ", "=", " ">>, registry, <<"\n">>>>
                 ELSE conf

\* Lines 357-359: what prepareConfigData appends after the loop.
ConfEnd(conf, jsonOutput, registry, npmAuth) ==
    conf \o <<<<"j", "s", "o", "n", " ", "=", " ">>, FormatBool(jsonOutput), <<"\n">>,
              <<"r", "e", "g", "i", "s", "t", "r", "y", " ", "=", " ">>, registry, <<"\n">>,
              npmAuth>>

\* The restriction after one line of the dump, as prepareConfigData's loop
\* body treats it.
RestrictionAfterLine(tr, currOption) ==
    IF currOption = <<>> THEN tr
    ELSE LET splitOption == SplitN2(currOption)
             key == TrimSpace(splitOption[1])
         IN IF Len(splitOption) = 2 /\ isValidKey(key)
            THEN setTypeRestriction(tr, key, TrimSpace(splitOption[2]))
            ELSE tr

\* prepareConfigData's side effect on nca.typeRestriction over the whole dump.
RECURSIVE RestrictionAfterDump(_, _)
RestrictionAfterDump(tr, lines) ==
    IF lines = <<>> THEN tr
    ELSE RestrictionAfterDump(RestrictionAfterLine(tr, Head(lines)), Tail(lines))

\* filterFlags: the arguments that are not flags.
filterFlags(splitArgs) == SelectSeq(splitArgs, LAMBDA arg : ~HasPrefix(arg, <<"-">>))

\* --------------------------------------------------- DependencyTreeParser

\* The graph right after make(map[string]*dependency).
EmptyGraph == [k \in {} |-> 0]

\* Mutant of scopeAlreadyExists: no scope is ever found.
scopeNeverExists(scope, existingScopes) == FALSE

scopeAlreadyExists(scope, existingScopes) ==
    \E i \in 1..Len(existingScopes) : existingScopes[i] = scope

\* Mutant of appendDependency: a path the node already has is not appended.
appendDependencyOncePerPath(g, depKey, depName, depVersion, scope, pathToRoot) ==
    LET g1 == IF depKey \notin DOMAIN g
              THEN g @@ (depKey :> [name |-> depName, version |-> depVersion,
                                    scopes |-> <<scope>>, fileType |-> "",
                                    checksum |-> NilChecksum, pathToRoot |-> <<>>])
              ELSE IF ~scopeAlreadyExists(scope, g[depKey].scopes)
                   THEN [g EXCEPT ![depKey].scopes = Append(@, scope)]
                   ELSE g
    IN IF \E i \in 1..Len(g1[depKey].pathToRoot) : g1[depKey].pathToRoot[i] = pathToRoot
       THEN g1
       ELSE [g1 EXCEPT ![depKey].pathToRoot = Append(@, pathToRoot)]

appendDependency(g, depKey, depName, depVersion, scope, pathToRoot) ==
    LET g1 == IF depKey \notin DOMAIN g
              THEN g @@ (depKey :> [name |-> depName, version |-> depVersion,
                                    scopes |-> <<scope>>, fileType |-> "",
                                    checksum |-> NilChecksum, pathToRoot |-> <<>>])
              ELSE IF ~scopeAlreadyExists(scope, g[depKey].scopes)
                   THEN [g EXCEPT ![depKey].scopes = Append(@, scope)]
                   ELSE g
    IN [g1 EXCEPT ![depKey].pathToRoot = Append(@, pathToRoot)]

\* Mutant of VersionFound: every entry counts as having a version.
VersionAlwaysFound(e) == TRUE

\* Lines 429-438: whether jsonparser.Get(data, depName, "version") found the
\* field (err is not KeyPathNotFoundError).
VersionFound(e) == e.version /= NoVersion

\* Mutant of ChildPath: the entry's identity is put after its ancestors.
ChildPathRootFirst(depKey, pathToRoot) == pathToRoot \o <<depKey>>

\* Line 445, append([]string{depKey}, pathToRoot...): the path handed to the
\* walk of an entry's own dependencies.
ChildPath(depKey, pathToRoot) == <<depKey>> \o pathToRoot

\* parseDependencies over the entries of one JSON object, in document order.
\* An entry is [name, version, deps]; version is NoVersion when the field is
\* absent, deps is <<>> when the entry has no (or an empty) "dependencies".
RECURSIVE parseDependencies(_, _, _, _)
parseDependencies(g, data, scope, pathToRoot) ==
    IF data = <<>> THEN g
    ELSE LET e == Head(data)
             depVersion == IF e.version = NoVersion THEN "" ELSE e.version
             depKey == e.name \o ":" \o depVersion
             g1 == IF VersionFound(e)
                   THEN appendDependency(g, depKey, e.name, depVersion, scope, pathToRoot)
                   ELSE g
             g2 == IF Len(e.deps) > 0
                   THEN parseDependencies(g1, e.deps, scope, ChildPath(depKey, pathToRoot))
                   ELSE g1
         IN parseDependencies(g2, Tail(data), scope, pathToRoot)

\* Mutant of prepareDependencies: a failed npm ls is returned as an error.
prepareDependenciesFailsWithListing(g, listing, scope) ==
    IF listing.failed THEN [graph |-> g, err |-> <<"npm ls: failed">>]
    ELSE IF ~listing.ok THEN [graph |-> g, err |-> <<"npm ls: malformed object">>]
    ELSE IF listing.hasDeps
         THEN [graph |-> parseDependencies(g, listing.deps, scope, <<ModuleId>>),
               err |-> NilErr]
         ELSE [graph |-> g, err |-> NilErr]

\* prepareDependencies: the graph and the error after one npm ls listing.
\* A listing is [ok, hasDeps, deps, failed]: ok is FALSE when the output is not
\* a JSON object, hasDeps tells whether it has a top-level "dependencies" key,
\* failed whether npm ls returned an error or wrote to stderr (both are only
\* logged).
prepareDependencies(g, listing, scope) ==
    IF ~listing.ok THEN [graph |-> g, err |-> <<"npm ls: malformed object">>]
    ELSE IF listing.hasDeps
         THEN [graph |-> parseDependencies(g, listing.deps, scope, <<ModuleId>>),
               err |-> NilErr]
         ELSE [graph |-> g, err |-> NilErr]

\* setDependenciesList: dev walk unless prod-only, then prod walk unless
\* dev-only, into a fresh graph.
\* Mutant of setDependenciesList: both walks are run whatever the restriction.
setDependenciesListBothWalks(tr, devListing, prodListing) ==
    LET dev == prepareDependencies(EmptyGraph, devListing, "dev")
        prod == prepareDependencies(dev.graph, prodListing, "prod")
    IN IF dev.err /= NilErr
       THEN [graph |-> dev.graph, err |-> dev.err, walks |-> <<"dev">>]
       ELSE [graph |-> prod.graph, err |-> prod.err, walks |-> <<"dev", "prod">>]

\* The result has the graph, the error returned and walks, the scopes
\* prepareDependencies was called with, in call order.
setDependenciesList(tr, devListing, prodListing) ==
    LET dev == IF tr /= prodOnly
               THEN prepareDependencies(EmptyGraph, devListing, "dev")
               ELSE [graph |-> EmptyGraph, err |-> NilErr]
        devWalk == IF tr /= prodOnly THEN <<"dev">> ELSE <<>>
        prod == prepareDependencies(dev.graph, prodListing, "prod")
    IN IF dev.err /= NilErr
       THEN [graph |-> dev.graph, err |-> dev.err, walks |-> devWalk]
       ELSE IF tr /= devOnly
            THEN [graph |-> prod.graph, err |-> prod.err, walks |-> devWalk \o <<"prod">>]
            ELSE [graph |-> dev.graph, err |-> dev.err, walks |-> devWalk]

\* ------------------------------------------------------- ChecksumEnricher

\* parallel.NewRunner: the number of consumer goroutines.
Consumers(maxParallel) == IF maxParallel < 1 THEN 1 ELSE maxParallel

\* What the remote registry answers to a point lookup.
RemoteResponses == {"found", "notfound", "error"}

\* commandUtils.GetDependencyInfo: the previous build's record when it has
\* one for name:ver, otherwise the remote lookup's answer.
GetDependencyInfo(name, ver, previousBuild, remote) ==
    LET id == name \o ":" \o ver
    IN IF id \in DOMAIN previousBuild
       THEN [checksum |-> previousBuild[id].checksum, fileType |-> previousBuild[id].type,
             err |-> NilErr, remoteCalled |-> FALSE]
       ELSE IF remote = "found"
            THEN [checksum |-> [src |-> "remote", id |-> id], fileType |-> "tgz",
                  err |-> NilErr, remoteCalled |-> TRUE]
            ELSE IF remote = "notfound"
                 THEN [checksum |-> NilChecksum, fileType |-> "",
                       err |-> NilErr, remoteCalled |-> TRUE]
                 ELSE [checksum |-> NilChecksum, fileType |-> "",
                       err |-> <<"lookup failed: " \o id>>, remoteCalled |-> TRUE]

\* The record the previous build holds for an identity.
PreviousRecord(id) == [checksum |-> [src |-> "previous", id |-> id], type |-> "prev-tgz"]

\* Mutant of TaskUpdate: the file type is stored, the checksum is not.
TaskUpdateForgetsChecksum(node, info) ==
    IF info.err /= NilErr \/ info.checksum = NilChecksum THEN node
    ELSE [node EXCEPT !.fileType = info.fileType]

\* The node the task function of createGetDependencyInfoFunc leaves behind,
\* given what GetDependencyInfo returned.
TaskUpdate(node, info) ==
    IF info.err /= NilErr \/ info.checksum = NilChecksum THEN node
    ELSE [node EXCEPT !.fileType = info.fileType, !.checksum = info.checksum]

\* Mutant of TaskError: a lookup that found nothing is an error.
TaskErrorOnNotFound(info) ==
    IF info.err /= NilErr THEN info.err
    ELSE IF info.checksum = NilChecksum THEN <<"not found">> ELSE NilErr

\* The error the task function returns.
TaskError(info) ==
    IF info.err /= NilErr \/ info.checksum = NilChecksum THEN info.err ELSE NilErr

\* Mutant of HandlerKey: every task works on the key "a:1.0.0".
HandlerKeyFixed(i) == "a:1.0.0"

\* handlerFunc(i): the key the task created for map key i works on.
HandlerKey(i) == i

\* ErrorsQueue.AddError: a non-blocking send on the buffered channel.
AddError(queue, err) ==
    IF Len(queue) < ErrorsQueueSize THEN Append(queue, err) ELSE queue

\* ErrorsQueue.GetError: a non-blocking receive.
GetError(queue) == IF queue /= <<>> THEN Head(queue) ELSE NilErr

\* collectDependenciesChecksums' return value.
CollectReturn(queue) == GetError(queue)

\* ------------------------------------------------------ ManifestAssembler

\* buildinfo.Dependency built from a node.
biDependency(d) ==
    [Id |-> d.name \o ":" \o d.version, Type |-> d.fileType, Scopes |-> d.scopes,
     Checksum |-> d.checksum, RequestedBy |-> d.pathToRoot]

\* Mutant of IsResolved: the test on the checksum is inverted.
IsResolvedInverted(d) == d.checksum = NilChecksum

\* Whether transformDependencies puts a node in the resolved list.
IsResolved(d) == d.checksum /= NilChecksum

\* transformDependencies, iterating the map in the order given by keys.
RECURSIVE transformDependencies(_, _)
transformDependencies(g, keys) ==
    IF keys = <<>> THEN [dependencies |-> <<>>, missingDependencies |-> <<>>]
    ELSE LET rest == transformDependencies(g, Tail(keys))
             d == g[Head(keys)]
         IN IF IsResolved(d)
            THEN [rest EXCEPT !.dependencies = <<biDependency(d)>> \o @]
            ELSE [rest EXCEPT !.missingDependencies = <<biDependency(d)>> \o @]

\* The orders in which a range over a map with these keys can visit them.
Orders(S) == {o \in [1..Cardinality(S) -> S] : \A k \in S : \E i \in DOMAIN o : o[i] = k}

\* ------------------------------------------------------------ inputs

\* A tree entry of the npm ls output.
Entry(n, v, d) == [name |-> n, version |-> v, deps |-> d]

\* A listing that is a JSON object with a "dependencies" object.
Listing(d) == [ok |-> TRUE, hasDeps |-> TRUE, deps |-> d, failed |-> FALSE]

\* The same listing from an npm ls that exited non-zero or wrote to stderr.
Failed(listing) == [listing EXCEPT !.failed = TRUE]

\* An npm ls output that is no JSON object (empty, for one).
NoObject == [ok |-> FALSE, hasDeps |-> FALSE, deps |-> <<>>, failed |-> FALSE]

\* An npm ls output that is a JSON object without a "dependencies" key.
NoDependencies == [ok |-> TRUE, hasDeps |-> FALSE, deps |-> <<>>, failed |-> FALSE]

\* npm ls outcomes the pipeline is run on: no JSON object (from a run that
\* failed and from one that did not), an object without dependencies, a chain,
\* and a failed run whose output has an entry without version (a missing
\* package) above an installed one.
Listings ==
    { Failed(NoObject),
      NoObject,
      NoDependencies,
      Listing(<<Entry("a", "1.0.0", <<Entry("b", "2.0.0", <<>>)>>)>>),
      Failed(Listing(<<Entry("p", NoVersion, <<Entry("a", "1.0.0", <<>>)>>)>>)) }

\* The versions an entry named name is given in the parser's inputs: "a" is
\* always installed, "b" can be a missing package (no "version" field).
NodeVersions(name) == IF name = "a" THEN {"1.0.0"} ELSE {"2.0.0", NoVersion}

\* The number of entries of a JSON "dependencies" object, nested ones included.
RECURSIVE Size(_)
Size(data) == IF data = <<>> THEN 0 ELSE 1 + Size(Head(data).deps) + Size(Tail(data))

\* The "dependencies" objects of at most n entries over the names "a" and "b"
\* (an object has a name at most once; npm ls prints them sorted).
RECURSIVE Objects(_)
Objects(n) ==
    IF n = 0 THEN {<<>>}
    ELSE LET EntriesOf(name) ==
                 {Entry(name, v, d) : v \in NodeVersions(name), d \in Objects(n - 1)}
         IN {<<>>}
            \cup {<<e>> : e \in EntriesOf("a") \cup EntriesOf("b")}
            \cup {o \in {<<ea, eb>> : ea \in EntriesOf("a"), eb \in EntriesOf("b")} :
                     Size(o) <= n}

\* npm ls outputs the parser is run on.
ParserInputs == {NoObject, NoDependencies} \cup {Listing(d) : d \in Objects(MaxNodes)}

\* npm config ls dumps the pipeline is run on: no restriction, prod-only
\* (omit wins over only), dev-only (only comes before production).
ConfigDumps ==
    { << <<";", " ", "c", "l", "i">> >>,
      << <<"o", "n", "l", "y", " ", "=", " ", "d", "e", "v">>,
         <<"o", "m", "i", "t", " ", "=", " ", "d", "e", "v">> >>,
      << <<"o", "n", "l", "y", " ", "=", " ", "d", "e", "v">>,
         <<"p", "r", "o", "d", "u", "c", "t", "i", "o", "n", " ", "=", " ", "t", "r", "u", "e">> >> }

\* Lines of npm config ls output the translator is run on: the directives
\* that bear on the restriction, the reserved keys (registry, json, a comment,
\* a scoped registry, a host's credentials, metrics-registry behind a tab), an
\* array value, a line without "=" and an empty line.
ConfigLines ==
    { <<"o", "m", "i", "t", " ", "=", " ", "d", "e", "v">>,
      <<"o", "m", "i", "t", " ", "=", " ", "[", "]">>,
      <<"o", "n", "l", "y", " ", "=", " ", "d", "e", "v">>,
      <<"o", "n", "l", "y", "=", "p", "r", "o", "d">>,
      <<"p", "r", "o", "d", "u", "c", "t", "i", "o", "n", " ", "=", " ", "t", "r", "u", "e">>,
      <<"r", "e", "g", "i", "s", "t", "r", "y", " ", "=", " ", "u">>,
      <<"j", "s", "o", "n", " ", "=", " ", "t", "r", "u", "e">>,
      <<";", " ", "c">>,
      <<"@", "s", " ", "=", " ", "u">>,
      <<"/", "/", "h", " ", "=", " ", "t">>,
      <<"\t", "m", "e", "t", "r", "i", "c", "s", "-", "r", "e", "g", "i", "s", "t", "r", "y", " ", "=", " ", "u">>,
      <<"a", " ", "=", " ", "[", "x", ",", "y", "]">>,
      <<"x">>,
      <<>> }

\* nca.registry and nca.npmAuth when prepareConfigData runs.
Registry == <<"R">>
NpmAuth == <<"_", "a", "u", "t", "h", " ", "=", " ", "T">>

\* What npm.GetConfigList hands back when it fails: nothing, or the part of a
\* dump it had read.
PartialDumps == {SubSeq(dump, 1, n) : dump \in ConfigDumps, n \in 0..1}

\* npm arguments the pipeline is run on: none, a flag, a package name.
NpmArgs ==
    { <<>>,
      << <<"-", "-", "j", "s", "o", "n">> >>,
      << <<"l", "o", "d", "a", "s", "h">> >> }

\* The steps of preparePrerequisites, in order.
PrerequisiteSteps ==
    {"setNpmExecutable", "validateNpmVersion", "setJsonOutput", "GetWorkingDirectory",
     "setArtifactoryAuth", "GetArtifactoryNpmRepoDetails", "PrepareBuildInfo", "BackupFile"}

\* ------------------------------------------------------------- the state

VARIABLES
    pc,                \* where run() is
    threads,           \* nca.threads
    npmrcPre,          \* the project .npmrc before the command
    npmrc,             \* the project .npmrc
    backup,            \* jfrog.npmrc.backup
    collectBuildInfo,  \* nca.collectBuildInfo
    typeRestriction,   \* nca.typeRestriction
    pendingErr,        \* the error handed to restoreNpmrcAndError
    retErr,            \* what run() returned
    dependencies,      \* nca.dependencies
    previousBuildDependencies,
    tasks,             \* the runner's tasks channel
    tasksClosed,       \* close(r.tasks)
    cancelled,         \* close(r.cancel)
    taskCount,         \* r.taskCount
    toAdd,             \* map keys the producer's range has not visited yet
    producer,          \* the producer goroutine: "off", "adding", "done"
    workers,           \* the consumer goroutines
    errorsQueue,       \* errorsQueue.errorsChan
    filteredConf,      \* prepareConfigData's filteredConf
    manifest,          \* what saveDependenciesData handed on
    hist               \* what happened so far (observation only)

vars == <<pc, threads, npmrcPre, npmrc, backup, collectBuildInfo, typeRestriction,
          pendingErr, retErr, dependencies, previousBuildDependencies, tasks,
          tasksClosed, cancelled, taskCount, toAdd, producer, workers, errorsQueue,
          filteredConf, manifest, hist>>

fileVars == <<npmrc, backup>>
poolVars == <<tasks, tasksClosed, cancelled, taskCount, toAdd, producer, workers,
              errorsQueue>>
graphVars == <<dependencies, previousBuildDependencies>>

NoTask == [key |-> "", num |-> -1]
IdleWorker == [st |-> "idle", task |-> NoTask, err |-> NilErr]
NoListings ==
    [walks |-> <<>>, devRun |-> FALSE, dev |-> NoDependencies,
     prodRun |-> FALSE, prod |-> NoDependencies]
NoManifest ==
    [built |-> FALSE, saved |-> FALSE, dependencies |-> <<>>, missingDependencies |-> <<>>]

\* hist: restoreCalls     how often restoreNpmrcFunc was invoked
\*       restoreFailed    whether an invocation failed
\*       failedAt         the stage whose failure run() returned
\*       stages           the stages entered, in order
\*       keysAtStart      the graph's keys when the pool started
\*       created          the key of every task created, in creation order
\*       executed         per key, how often a task function ran for it
\*       remoteCalls      per key, how often the remote lookup was issued
\*       remoteAnswer     per key, the remote's last answer
\*       writes           <<task number, key>> of every node write
\*       taskErrors       the errors task functions returned, in arrival order
\*       collect          whether collectDependenciesChecksums' pool phase
\*                        returned, and the error it returned
\*       configListFailed whether npm.GetConfigList returned an error
\*       listingFailed    whether an npm ls that was run failed
\*       listings         the npm ls outputs the walks were run on
\*       scanned          the dump lines prepareConfigData's scanner has read
HistInit ==
    [restoreCalls |-> 0, restoreFailed |-> FALSE, failedAt |-> "", stages |-> <<>>,
     keysAtStart |-> {}, created |-> <<>>, executed |-> EmptyGraph,
     remoteCalls |-> EmptyGraph, remoteAnswer |-> EmptyGraph, writes |-> {},
     taskErrors |-> <<>>, collect |-> [returned |-> FALSE, err |-> NilErr],
     configListFailed |-> FALSE, listingFailed |-> FALSE, listings |-> NoListings,
     scanned |-> <<>>]

Init ==
    /\ pc = "preparePrerequisites"
    /\ threads \in -1..MaxThreads
    /\ npmrcPre \in {Absent, Orig}
    /\ npmrc = npmrcPre
    /\ backup = Absent
    /\ collectBuildInfo = FALSE
    /\ typeRestriction = defaultRestriction
    /\ pendingErr = NilErr
    /\ retErr = NilErr
    /\ dependencies = EmptyGraph
    /\ previousBuildDependencies = EmptyGraph
    /\ tasks = <<>>
    /\ tasksClosed = FALSE
    /\ cancelled = FALSE
    /\ taskCount = 0
    /\ toAdd = {}
    /\ producer = "off"
    /\ workers = <<>>
    /\ errorsQueue = <<>>
    /\ filteredConf = <<>>
    /\ manifest = NoManifest
    /\ hist = HistInit

\* ------------------------------------------------------------ run()

\* run() returns err.
Return(err) == pc' = "returned" /\ retErr' = err

\* hist after run() went through stage, failing there or not.
Staged(h, stage, failed) ==
    [h EXCEPT !.stages = Append(@, stage),
              !.failedAt = IF failed THEN stage ELSE @]

\* The error the restore function returns when it fails.
RestoreErr == <<"restore of .npmrc failed">>

\* commandUtils.BackupFile: the backup file after backing up the project
\* .npmrc (a copy, when there is one).
BackupFile(file) == file

\* The closure BackupFile returns, restoreNpmrcFunc: the backup moved back
\* over .npmrc when there is one, .npmrc removed otherwise.
RestoreFiles(file, bak) ==
    IF bak /= Absent THEN [npmrc |-> bak, backup |-> Absent]
    ELSE [npmrc |-> Absent, backup |-> Absent]

\* One invocation of nca.restoreNpmrcFunc(), succeeding or not.
InvokeRestore(ok) ==
    /\ npmrc' = IF ok THEN RestoreFiles(npmrc, backup).npmrc ELSE npmrc
    /\ backup' = IF ok THEN RestoreFiles(npmrc, backup).backup ELSE backup

\* Mutant of restoreNpmrcAndError: the restore error is dropped.
restoreNpmrcAndErrorDropsRestore(err, restoreErr) == err

\* restoreNpmrcAndError's return value.
restoreNpmrcAndError(err, restoreErr) ==
    IF restoreErr /= NilErr THEN restoreErr \o err ELSE err

\* Mutant of OnConfigOrInstallError: the error is returned at once.
ReturnWithoutRestore(err) ==
    /\ pc' = "returned"
    /\ retErr' = err
    /\ UNCHANGED pendingErr

\* run() lines 135-141: a failed createTempNpmrc or runInstallOrCi goes to
\* restoreNpmrcAndError(err).
OnConfigOrInstallError(err) ==
    /\ pc' = "restoreNpmrcAndError"
    /\ pendingErr' = err
    /\ UNCHANGED retErr

\* Mutant of OnPrerequisiteError: the error goes through restoreNpmrcAndError.
RestoreOnPrerequisiteError(err) ==
    /\ pc' = "restoreNpmrcAndError"
    /\ pendingErr' = err
    /\ UNCHANGED retErr

\* run() lines 131-133: a failed preparePrerequisites is returned as it is.
OnPrerequisiteError(err) ==
    /\ pc' = "returned"
    /\ retErr' = err
    /\ UNCHANGED pendingErr

\* Mutant of AfterInstall: the success path skips the restore.
AfterInstallSkipsRestore == "checkCollectBuildInfo"

\* run() line 143: where run() goes after a successful runInstallOrCi.
AfterInstall == "restoreNpmrc"

PreparePrerequisites ==
    /\ pc = "preparePrerequisites"
    /\ \/ \E step \in PrerequisiteSteps :
            /\ OnPrerequisiteError(<<step>>)
            /\ hist' = Staged(hist, "preparePrerequisites", TRUE)
            /\ UNCHANGED <<backup, collectBuildInfo>>
       \/ \E cbi \in BOOLEAN :
            /\ collectBuildInfo' = cbi
            /\ backup' = BackupFile(npmrc)
            /\ pc' = "createTempNpmrc"
            /\ hist' = Staged(hist, "preparePrerequisites", FALSE)
            /\ UNCHANGED <<pendingErr, retErr>>
    /\ UNCHANGED <<threads, filteredConf, npmrcPre, npmrc, typeRestriction, manifest>>
    /\ UNCHANGED <<graphVars, poolVars>>

\* createTempNpmrc. The err of npm.GetConfigList (line 230) is overwritten by
\* the err of prepareConfigData (line 231) before it is looked at, so the
\* function goes on with whatever data came back.
CreateTempNpmrc ==
    /\ pc = "createTempNpmrc"
    /\ \E configListFailed \in BOOLEAN :
       \E dump \in (IF configListFailed THEN PartialDumps ELSE ConfigDumps) :
         /\ typeRestriction' = RestrictionAfterDump(typeRestriction, dump)
         /\ \/ /\ npmrc' = Temp
               /\ pc' = "runInstallOrCi"
               /\ hist' = [Staged(hist, "createTempNpmrc", FALSE) EXCEPT
                              !.configListFailed = configListFailed]
               /\ UNCHANGED <<pendingErr, retErr>>
            \/ \E step \in {"prepareConfigData", "removeNpmrcIfExists"} :
                 /\ UNCHANGED npmrc
                 /\ OnConfigOrInstallError(<<step>>)
                 /\ hist' = [Staged(hist, "createTempNpmrc", TRUE) EXCEPT
                                !.configListFailed = configListFailed]
            \/ \E left \in {Absent, Temp} :
                 /\ npmrc' = left
                 /\ OnConfigOrInstallError(<<"WriteFile">>)
                 /\ hist' = [Staged(hist, "createTempNpmrc", TRUE) EXCEPT
                                !.configListFailed = configListFailed]
    /\ UNCHANGED <<threads, filteredConf, npmrcPre, backup, collectBuildInfo, manifest>>
    /\ UNCHANGED <<graphVars, poolVars>>

RunInstallOrCi ==
    /\ pc = "runInstallOrCi"
    /\ \E args \in NpmArgs :
         /\ collectBuildInfo' = (collectBuildInfo /\ ~(Len(filterFlags(args)) > 0))
         /\ \/ /\ pc' = AfterInstall
               /\ hist' = Staged(hist, "runInstallOrCi", FALSE)
               /\ UNCHANGED <<pendingErr, retErr>>
            \/ /\ OnConfigOrInstallError(<<"runInstallOrCi">>)
               /\ hist' = Staged(hist, "runInstallOrCi", TRUE)
    /\ UNCHANGED <<threads, filteredConf, npmrcPre, fileVars, typeRestriction, manifest>>
    /\ UNCHANGED <<graphVars, poolVars>>

RestoreNpmrcAndError ==
    /\ pc = "restoreNpmrcAndError"
    /\ \E ok \in BOOLEAN :
         /\ InvokeRestore(ok)
         /\ Return(restoreNpmrcAndError(pendingErr, IF ok THEN NilErr ELSE RestoreErr))
         /\ hist' = [hist EXCEPT !.stages = Append(@, "restoreNpmrcAndError"),
                                 !.restoreCalls = @ + 1,
                                 !.restoreFailed = @ \/ ~ok]
    /\ UNCHANGED <<threads, filteredConf, npmrcPre, collectBuildInfo, typeRestriction, pendingErr,
                   manifest>>
    /\ UNCHANGED <<graphVars, poolVars>>

\* Mutant of OnRestoreError: the restore function's error is not looked at.
IgnoreRestoreError(err) ==
    /\ pc' = "checkCollectBuildInfo"
    /\ UNCHANGED retErr

\* run() lines 143-145: a failed restore on the success path is returned.
OnRestoreError(err) == Return(err)

RestoreNpmrc ==
    /\ pc = "restoreNpmrc"
    /\ \E ok \in BOOLEAN :
         /\ InvokeRestore(ok)
         /\ IF ok THEN pc' = "checkCollectBuildInfo" /\ UNCHANGED retErr
                  ELSE OnRestoreError(RestoreErr)
         /\ hist' = [Staged(hist, "restoreNpmrc", ~ok) EXCEPT
                        !.restoreCalls = @ + 1, !.restoreFailed = @ \/ ~ok]
    /\ UNCHANGED <<threads, filteredConf, npmrcPre, collectBuildInfo, typeRestriction, pendingErr,
                   manifest>>
    /\ UNCHANGED <<graphVars, poolVars>>

CheckCollectBuildInfo ==
    /\ pc = "checkCollectBuildInfo"
    /\ IF ~collectBuildInfo THEN Return(NilErr)
                            ELSE pc' = "setDependenciesList" /\ UNCHANGED retErr
    /\ hist' = Staged(hist, "checkCollectBuildInfo", FALSE)
    /\ UNCHANGED <<threads, filteredConf, npmrcPre, fileVars, collectBuildInfo, typeRestriction,
                   pendingErr, manifest>>
    /\ UNCHANGED <<graphVars, poolVars>>

\* setDependenciesList on npm ls outputs drawn from inputs.
SetDependenciesListOn(inputs) ==
    /\ pc = "setDependenciesList"
    /\ \E devListing \in inputs, prodListing \in inputs :
         LET r == setDependenciesList(typeRestriction, devListing, prodListing)
             devRun == \E i \in 1..Len(r.walks) : r.walks[i] = "dev"
             prodRun == \E i \in 1..Len(r.walks) : r.walks[i] = "prod"
         IN /\ dependencies' = r.graph
            /\ IF r.err /= NilErr THEN Return(r.err)
               ELSE pc' = "collectDependenciesChecksums" /\ UNCHANGED retErr
            /\ hist' = [Staged(hist, "setDependenciesList", r.err /= NilErr) EXCEPT
                  !.listingFailed = (devRun /\ devListing.failed) \/ (prodRun /\ prodListing.failed),
                  !.listings = [walks |-> r.walks,
                                devRun |-> devRun,
                                dev |-> IF devRun THEN devListing ELSE NoDependencies,
                                prodRun |-> prodRun,
                                prod |-> IF prodRun THEN prodListing ELSE NoDependencies]]
    /\ UNCHANGED <<threads, filteredConf, npmrcPre, fileVars, collectBuildInfo, typeRestriction,
                   pendingErr, manifest, previousBuildDependencies>>
    /\ UNCHANGED poolVars

SetDependenciesList == SetDependenciesListOn(Listings)

\* ------------------------------------------- collectDependenciesChecksums

\* Mutant of OnError: no error handler is given to the runner.
OnErrorIgnored(queue, err) == queue

\* t.onError, the handler given to AddTaskWithError: errorsQueue.AddError.
OnError(queue, err) == AddError(queue, err)

\* Lines 277-289 and the start of the producer goroutine and of Run().
CollectStart ==
    /\ pc = "collectDependenciesChecksums"
    /\ \/ \E step \in {"CreateServiceManager", "GetDependenciesFromLatestBuild"} :
            /\ Return(<<step>>)
            /\ hist' = Staged(hist, "collectDependenciesChecksums", TRUE)
            /\ UNCHANGED <<previousBuildDependencies, poolVars>>
       \/ \E cached \in SUBSET DOMAIN dependencies :
            /\ previousBuildDependencies' = [id \in cached |-> PreviousRecord(id)]
            /\ tasks' = <<>>
            /\ tasksClosed' = FALSE
            /\ cancelled' = FALSE
            /\ taskCount' = 0
            /\ toAdd' = DOMAIN dependencies
            /\ producer' = "adding"
            /\ workers' = [w \in 1..Consumers(threads) |-> IdleWorker]
            /\ errorsQueue' = <<>>
            /\ pc' = "Run"
            /\ hist' = [hist EXCEPT
                          !.stages = Append(@, "collectDependenciesChecksums"),
                          !.keysAtStart = DOMAIN dependencies,
                          !.executed = [k \in DOMAIN dependencies |-> 0],
                          !.remoteCalls = [k \in DOMAIN dependencies |-> 0],
                          !.remoteAnswer = [k \in DOMAIN dependencies |-> "none"]]
            /\ UNCHANGED retErr
    /\ UNCHANGED <<threads, filteredConf, npmrcPre, fileVars, collectBuildInfo, typeRestriction,
                   pendingErr, manifest, dependencies>>

\* Mutant of ProducerAdd: a task that finds the channel full is dropped
\* instead of waiting for room.
ProducerAddSkipsWhenFull ==
    /\ producer = "adding"
    /\ \E i \in toAdd :
         /\ toAdd' = toAdd \ {i}
         /\ taskCount' = taskCount + 1
         /\ IF cancelled \/ Len(tasks) >= TasksCapacity THEN UNCHANGED <<tasks, hist>>
            ELSE /\ tasks' = Append(tasks, [key |-> HandlerKey(i), num |-> taskCount])
                 /\ hist' = [hist EXCEPT !.created = Append(@, i)]
    /\ UNCHANGED <<pc, threads, filteredConf, npmrcPre, fileVars, collectBuildInfo, typeRestriction,
                   pendingErr, retErr, manifest, graphVars, tasksClosed, cancelled,
                   producer, workers, errorsQueue>>

\* One iteration of the producer's range over nca.dependencies:
\* AddTaskWithError(handlerFunc(i), errorsQueue.AddError). The send blocks
\* while the channel is full; a cancelled runner refuses the task.
ProducerAdd ==
    /\ producer = "adding"
    /\ \E i \in toAdd :
         /\ toAdd' = toAdd \ {i}
         /\ taskCount' = taskCount + 1
         /\ IF cancelled THEN UNCHANGED <<tasks, hist>>
            ELSE /\ Len(tasks) < TasksCapacity
                 /\ tasks' = Append(tasks, [key |-> HandlerKey(i), num |-> taskCount])
                 /\ hist' = [hist EXCEPT !.created = Append(@, i)]
    /\ UNCHANGED <<pc, threads, filteredConf, npmrcPre, fileVars, collectBuildInfo, typeRestriction,
                   pendingErr, retErr, manifest, graphVars, tasksClosed, cancelled,
                   producer, workers, errorsQueue>>

\* Mutant of ProducerDone: the producer ends without calling Done().
ProducerEndsWithoutDone ==
    /\ producer = "adding"
    /\ toAdd = {}
    /\ producer' = "done"
    /\ UNCHANGED <<pc, threads, filteredConf, npmrcPre, fileVars, collectBuildInfo, typeRestriction,
                   pendingErr, retErr, manifest, graphVars, tasks, tasksClosed,
                   cancelled, taskCount, toAdd, workers, errorsQueue, hist>>

\* The producer's deferred producerConsumer.Done(), once the range is over.
ProducerDone ==
    /\ producer = "adding"
    /\ toAdd = {}
    /\ producer' = "done"
    /\ tasksClosed' = TRUE
    /\ UNCHANGED <<pc, threads, filteredConf, npmrcPre, fileVars, collectBuildInfo, typeRestriction,
                   pendingErr, retErr, manifest, graphVars, tasks, cancelled,
                   taskCount, toAdd, workers, errorsQueue, hist>>

\* A consumer receives the next task from the channel.
WorkerTake(w) ==
    /\ pc = "Run"
    /\ workers[w].st = "idle"
    /\ tasks /= <<>>
    /\ workers' = [workers EXCEPT ![w] = [st |-> "running", task |-> Head(tasks),
                                          err |-> NilErr]]
    /\ tasks' = Tail(tasks)
    /\ UNCHANGED <<pc, threads, filteredConf, npmrcPre, fileVars, collectBuildInfo, typeRestriction,
                   pendingErr, retErr, manifest, graphVars, tasksClosed, cancelled,
                   taskCount, toAdd, producer, errorsQueue, hist>>

\* The task function runs: GetDependencyInfo for its node, then the update.
WorkerLookup(w) ==
    /\ pc = "Run"
    /\ workers[w].st = "running"
    /\ \E remote \in RemoteResponses :
         LET t == workers[w].task
             k == t.key
             node == dependencies[k]
             info == GetDependencyInfo(node.name, node.version,
                                       previousBuildDependencies, remote)
             updated == TaskUpdate(node, info)
         IN /\ dependencies' = [dependencies EXCEPT ![k] = updated]
            /\ workers' = [workers EXCEPT ![w].st = "report", ![w].err = TaskError(info)]
            /\ hist' = [hist EXCEPT
                          !.executed[k] = @ + 1,
                          !.remoteCalls[k] = IF info.remoteCalled THEN @ + 1 ELSE @,
                          !.remoteAnswer[k] = IF info.remoteCalled THEN remote ELSE @,
                          !.writes = IF updated /= node THEN @ \cup {<<t.num, k>>} ELSE @]
    /\ UNCHANGED <<pc, threads, filteredConf, npmrcPre, fileVars, collectBuildInfo, typeRestriction,
                   pendingErr, retErr, manifest, previousBuildDependencies, tasks,
                   tasksClosed, cancelled, taskCount, toAdd, producer, errorsQueue>>

\* The consumer handles the task's error: onError, then (fail-fast only)
\* cancel and leave the loop.
WorkerReport(w) ==
    /\ pc = "Run"
    /\ workers[w].st = "report"
    /\ LET e == workers[w].err
       IN IF e /= NilErr
          THEN /\ errorsQueue' = OnError(errorsQueue, e)
               /\ hist' = [hist EXCEPT !.taskErrors = Append(@, e)]
               /\ cancelled' = (cancelled \/ FailFast)
               /\ workers' = [workers EXCEPT ![w] =
                                [IdleWorker EXCEPT !.st = IF FailFast THEN "exited"
                                                                      ELSE "idle"]]
          ELSE /\ workers' = [workers EXCEPT ![w] = IdleWorker]
               /\ UNCHANGED <<errorsQueue, hist, cancelled>>
    /\ UNCHANGED <<pc, threads, filteredConf, npmrcPre, fileVars, collectBuildInfo, typeRestriction,
                   pendingErr, retErr, manifest, graphVars, tasks, tasksClosed,
                   taskCount, toAdd, producer>>

\* The consumer's range over the channel ends: closed and drained.
WorkerExit(w) ==
    /\ pc = "Run"
    /\ workers[w].st = "idle"
    /\ tasks = <<>>
    /\ tasksClosed
    /\ workers' = [workers EXCEPT ![w].st = "exited"]
    /\ UNCHANGED <<pc, threads, filteredConf, npmrcPre, fileVars, collectBuildInfo, typeRestriction,
                   pendingErr, retErr, manifest, graphVars, tasks, tasksClosed,
                   cancelled, taskCount, toAdd, producer, errorsQueue, hist>>

\* Mutant of OnCollectError: the manifest is saved all the same.
SaveDespiteCollectError(err) ==
    /\ pc' = "saveDependenciesData"
    /\ UNCHANGED retErr

\* run() lines 156-158: the error of collectDependenciesChecksums is returned.
OnCollectError(err) == Return(err)

\* wg.Wait() is over, Run() returns and line 297 returns the queue's error.
RunReturn ==
    /\ pc = "Run"
    /\ \A w \in DOMAIN workers : workers[w].st = "exited"
    /\ LET e == CollectReturn(errorsQueue)
       IN /\ IF e /= NilErr THEN OnCollectError(e)
             ELSE pc' = "saveDependenciesData" /\ UNCHANGED retErr
          /\ hist' = [Staged(hist, "Run", e /= NilErr) EXCEPT
                         !.collect = [returned |-> TRUE, err |-> e]]
    /\ UNCHANGED <<threads, filteredConf, npmrcPre, fileVars, collectBuildInfo, typeRestriction,
                   pendingErr, manifest, graphVars, poolVars>>

\* saveDependenciesData: transformDependencies, then the hand-over.
SaveDependenciesData ==
    /\ pc = "saveDependenciesData"
    /\ \E order \in Orders(DOMAIN dependencies), ok \in BOOLEAN :
         LET lists == transformDependencies(dependencies, order)
         IN /\ manifest' = [built |-> TRUE, saved |-> ok,
                            dependencies |-> lists.dependencies,
                            missingDependencies |-> lists.missingDependencies]
            /\ Return(IF ok THEN NilErr ELSE <<"SaveDependenciesData">>)
            /\ hist' = Staged(hist, "saveDependenciesData", ~ok)
    /\ UNCHANGED <<threads, filteredConf, npmrcPre, fileVars, collectBuildInfo, typeRestriction,
                   pendingErr, graphVars, poolVars>>

Next ==
    \/ PreparePrerequisites
    \/ CreateTempNpmrc
    \/ RunInstallOrCi
    \/ RestoreNpmrcAndError
    \/ RestoreNpmrc
    \/ CheckCollectBuildInfo
    \/ SetDependenciesList
    \/ CollectStart
    \/ ProducerAdd
    \/ ProducerDone
    \/ \E w \in DOMAIN workers : WorkerTake(w)
    \/ \E w \in DOMAIN workers : WorkerLookup(w)
    \/ \E w \in DOMAIN workers : WorkerReport(w)
    \/ \E w \in DOMAIN workers : WorkerExit(w)
    \/ RunReturn
    \/ SaveDependenciesData

Spec == Init /\ [][Next]_vars

\* The Go scheduler runs every runnable goroutine eventually, and every
\* external call returns.
FairSpec == Spec /\ WF_vars(Next)

\* ---------------------------------------- the config translator on its own

\* run() when createTempNpmrc calls prepareConfigData (line 231).
ConfigInit ==
    /\ pc = "prepareConfigData"
    /\ threads = 1
    /\ npmrcPre = Absent
    /\ npmrc = Absent
    /\ backup = Absent
    /\ collectBuildInfo = TRUE
    /\ typeRestriction = defaultRestriction
    /\ pendingErr = NilErr
    /\ retErr = NilErr
    /\ dependencies = EmptyGraph
    /\ previousBuildDependencies = EmptyGraph
    /\ tasks = <<>>
    /\ tasksClosed = FALSE
    /\ cancelled = FALSE
    /\ taskCount = 0
    /\ toAdd = {}
    /\ producer = "off"
    /\ workers = <<>>
    /\ errorsQueue = <<>>
    /\ filteredConf = <<>>
    /\ manifest = NoManifest
    /\ hist = [HistInit EXCEPT !.stages = <<"preparePrerequisites">>]

\* One iteration of prepareConfigData's loop: the scanner yields a line.
ScanLine ==
    /\ pc = "prepareConfigData"
    /\ Len(hist.scanned) < MaxDumpLen
    /\ \E currOption \in ConfigLines :
         /\ filteredConf' = ConfAfterLine(filteredConf, currOption, Registry)
         /\ typeRestriction' = RestrictionAfterLine(typeRestriction, currOption)
         /\ hist' = [hist EXCEPT !.scanned = Append(@, currOption)]
    /\ UNCHANGED <<pc, threads, npmrcPre, fileVars, collectBuildInfo, pendingErr, retErr,
                   manifest>>
    /\ UNCHANGED <<graphVars, poolVars>>

\* The scanner is at the end of the dump: lines 357-360.
ScannerEnd ==
    /\ pc = "prepareConfigData"
    /\ \E jsonOutput \in BOOLEAN :
         filteredConf' = ConfEnd(filteredConf, jsonOutput, Registry, NpmAuth)
    /\ pc' = "removeNpmrcIfExists"
    /\ UNCHANGED <<threads, npmrcPre, fileVars, collectBuildInfo, typeRestriction,
                   pendingErr, retErr, manifest, hist>>
    /\ UNCHANGED <<graphVars, poolVars>>

ConfigNext == ScanLine \/ ScannerEnd

ConfigSpec == ConfigInit /\ [][ConfigNext]_vars

\* ------------------------------------------------- the parser on its own

\* run() when it reaches setDependenciesList (line 154), under any restriction
\* the config dump can have set.
ParseInit ==
    /\ pc = "setDependenciesList"
    /\ threads = 1
    /\ npmrcPre = Absent
    /\ npmrc = Absent
    /\ backup = Absent
    /\ collectBuildInfo = TRUE
    /\ typeRestriction \in {defaultRestriction, all, devOnly, prodOnly}
    /\ pendingErr = NilErr
    /\ retErr = NilErr
    /\ dependencies = EmptyGraph
    /\ previousBuildDependencies = EmptyGraph
    /\ tasks = <<>>
    /\ tasksClosed = FALSE
    /\ cancelled = FALSE
    /\ taskCount = 0
    /\ toAdd = {}
    /\ producer = "off"
    /\ workers = <<>>
    /\ errorsQueue = <<>>
    /\ filteredConf = <<>>
    /\ manifest = NoManifest
    /\ hist = [HistInit EXCEPT
                 !.restoreCalls = 1,
                 !.stages = <<"preparePrerequisites", "createTempNpmrc", "runInstallOrCi",
                              "restoreNpmrc", "checkCollectBuildInfo">>]

\* setDependenciesList on every tree of at most MaxNodes entries.
ParseListings == SetDependenciesListOn(ParserInputs)

ParseNext == ParseListings

ParseSpec == ParseInit /\ [][ParseNext]_vars

\* ------------------------------------------------------------ claims

\* run() got past preparePrerequisites.
PastPrerequisites == Len(hist.stages) >= 2

\* The stages from config creation on whose failure run() returns.
LaterStages ==
    {"createTempNpmrc", "runInstallOrCi", "restoreNpmrc", "setDependenciesList",
     "collectDependenciesChecksums", "Run", "saveDependenciesData"}

\* The errors createTempNpmrc and runInstallOrCi fail with.
OperationalErrors ==
    {<<"prepareConfigData">>, <<"removeNpmrcIfExists">>, <<"WriteFile">>,
     <<"runInstallOrCi">>}

\* The Ids of a list of buildinfo.Dependency records.
Ids(list) == {list[i].Id : i \in DOMAIN list}

C2_FailurePassesThroughRestore ==
    (pc = "returned" /\ retErr /= NilErr /\ hist.failedAt \in LaterStages)
        => hist.restoreCalls = 1

C2_Witness ==
    /\ pc = "returned"
    /\ hist.failedAt = "runInstallOrCi"
    /\ retErr = <<"runInstallOrCi">>
    /\ hist.restoreCalls = 1

\* C3: after a failed createTempNpmrc or runInstallOrCi, the error run()
\* returns holds both the restore error and the original error when the
\* restore failed, and is exactly the original error when it succeeded.
C3_DoubleFailureCarriesBoth ==
    (pc = "returned" /\ hist.failedAt \in {"createTempNpmrc", "runInstallOrCi"})
        => /\ pendingErr \in OperationalErrors
           /\ IF hist.restoreFailed
              THEN Contains(retErr, RestoreErr) /\ Contains(retErr, pendingErr)
              ELSE retErr = pendingErr

C3_Witness ==
    /\ pc = "returned"
    /\ hist.failedAt = "createTempNpmrc"
    /\ hist.restoreFailed
    /\ retErr = RestoreErr \o <<"WriteFile">>

\* C4: when the pool phase of collectDependenciesChecksums has returned, the
\* task of every key of the graph has run, whichever lookups failed; the
\* runner is never cancelled.
C4_EveryTaskRuns ==
    /\ ~cancelled
    /\ hist.collect.returned
         => \A k \in DOMAIN dependencies : hist.executed[k] >= 1

C4_Witness ==
    /\ hist.collect.returned
    /\ Cardinality(DOMAIN dependencies) = 2
    /\ Len(hist.taskErrors) = 1
    /\ \A k \in DOMAIN dependencies : hist.executed[k] = 1

\* C5: collectDependenciesChecksums returns nil exactly when no task returned
\* an error, and otherwise the first error that arrived; the collector holds
\* at most ErrorsQueueSize errors, the first arrivals, and a consumer that
\* reports an error can always go on.
C5_FirstErrorReturned ==
    /\ Len(errorsQueue) <= ErrorsQueueSize
    /\ pc = "Run" =>
         /\ errorsQueue = SubSeq(hist.taskErrors, 1, Len(errorsQueue))
         /\ (hist.taskErrors /= <<>> => errorsQueue /= <<>>)
         /\ \A w \in DOMAIN workers :
              workers[w].st = "report" => ENABLED WorkerReport(w)
    /\ hist.collect.returned =>
         /\ (hist.collect.err = NilErr <=> hist.taskErrors = <<>>)
         /\ (hist.taskErrors /= <<>> => hist.collect.err = hist.taskErrors[1])

C5_Witness ==
    /\ hist.collect.returned
    /\ Len(hist.taskErrors) = 2
    /\ hist.taskErrors[1] /= hist.taskErrors[2]
    /\ retErr = hist.taskErrors[1]

\* The keys outside the previous build whose remote lookup gave this answer.
Answered(answer) ==
    {k \in DOMAIN hist.remoteAnswer :
        k \notin DOMAIN previousBuildDependencies /\ hist.remoteAnswer[k] = answer}

\* C6: a node outside the previous build whose remote lookup found nothing
\* keeps checksum and fileType unset and its task returns no error (the only
\* errors reported are those of failed lookups); in the manifest it is in the
\* missing list, a node whose lookup found a checksum is in the resolved
\* list; when no lookup failed the collector stays empty.
C6_NotFoundIsMissingNotError ==
    /\ \A k \in Answered("notfound") :
         /\ dependencies[k].checksum = NilChecksum
         /\ dependencies[k].fileType = ""
    /\ \A i \in DOMAIN hist.taskErrors :
         \E k \in Answered("error") : hist.taskErrors[i] = <<"lookup failed: " \o k>>
    /\ Answered("error") = {} => (hist.taskErrors = <<>> /\ errorsQueue = <<>>)
    /\ manifest.built =>
         /\ Answered("notfound") \subseteq Ids(manifest.missingDependencies)
         /\ Answered("found") \subseteq Ids(manifest.dependencies)
         /\ hist.collect.err = NilErr

C6_Witness ==
    /\ manifest.built
    /\ Answered("notfound") /= {}
    /\ Answered("found") /= {}
    /\ previousBuildDependencies = EmptyGraph

\* C7: for a node that has an entry in the previous build the remote lookup
\* is never issued, and once its task has run its checksum and fileType are
\* the ones of that entry.
C7_CachePrecedence ==
    \A k \in DOMAIN previousBuildDependencies :
        /\ hist.remoteCalls[k] = 0
        /\ hist.executed[k] >= 1 =>
             /\ dependencies[k].checksum = previousBuildDependencies[k].checksum
             /\ dependencies[k].fileType = previousBuildDependencies[k].type

C7_Witness ==
    /\ hist.collect.returned
    /\ \E k \in DOMAIN previousBuildDependencies :
         /\ hist.executed[k] = 1
         /\ dependencies[k].checksum = [src |-> "previous", id |-> k]
    /\ \E k \in DOMAIN dependencies : hist.remoteCalls[k] = 1

\* C8: the two lists transformDependencies builds partition the graph: each
\* node is in exactly one of them, once, resolved exactly when its checksum
\* is set, and every record is the record of a graph node.
C8_ManifestPartitionsGraph ==
    manifest.built =>
        LET res == manifest.dependencies
            mis == manifest.missingDependencies
        IN /\ Ids(res) \cup Ids(mis) = DOMAIN dependencies
           /\ Ids(res) \cap Ids(mis) = {}
           /\ Len(res) + Len(mis) = Cardinality(DOMAIN dependencies)
           /\ \A k \in DOMAIN dependencies :
                k \in Ids(res) <=> dependencies[k].checksum /= NilChecksum
           /\ \A i \in DOMAIN res : res[i] = biDependency(dependencies[res[i].Id])
           /\ \A i \in DOMAIN mis : mis[i] = biDependency(dependencies[mis[i].Id])

C8_Witness ==
    /\ manifest.built
    /\ Len(manifest.dependencies) = 1
    /\ Len(manifest.missingDependencies) = 1
    /\ manifest.dependencies[1].Checksum.src = "previous"

\* C9: while the pool runs, every node write is made by the task created for
\* that node's key, one task is created per key, no two consumers hold tasks
\* of the same key, and the key set of the graph stays what it was when the
\* pool started.
C9_DisjointWriters ==
    producer /= "off" =>
        /\ DOMAIN dependencies = hist.keysAtStart
        /\ \A wr \in hist.writes : hist.created[wr[1] + 1] = wr[2]
        /\ \A i, j \in DOMAIN hist.created :
             hist.created[i] = hist.created[j] => i = j
        /\ {hist.created[i] : i \in DOMAIN hist.created} = hist.keysAtStart \ toAdd
        /\ \A v, w \in DOMAIN workers :
             (v /= w /\ workers[v].st \in {"running", "report"}
                     /\ workers[w].st \in {"running", "report"})
                => workers[v].task.key /= workers[w].task.key
        /\ \A w \in DOMAIN workers :
             workers[w].st \in {"running", "report"}
                => hist.created[workers[w].task.num + 1] = workers[w].task.key

C9_Witness ==
    /\ Cardinality(hist.writes) = 1
    /\ \E v, w \in DOMAIN workers :
         /\ v /= w
         /\ workers[v].st = "running"
         /\ workers[w].st = "report"
         /\ <<workers[w].task.num, workers[w].task.key>> \in hist.writes

\* The pool phase is over with every task run and the producer finished.
EnrichmentOver ==
    /\ hist.collect.returned
    /\ producer = "done"
    /\ \A k \in DOMAIN dependencies : hist.executed[k] >= 1

\* C10: with a thread count of 0 or less the pool has exactly one consumer,
\* and the pool phase always ends, with every task run and the producer
\* finished.
C10_NonPositiveThreadsTerminate ==
    /\ [](threads <= 0 /\ pc = "Run" => Len(workers) = 1)
    /\ (threads <= 0 /\ pc = "Run") ~> EnrichmentOver

C10_Witness ==
    /\ threads <= 0
    /\ EnrichmentOver
    /\ Cardinality(DOMAIN dependencies) = 2
    /\ Len(workers) = 1

\* The visits a walk of one "dependencies" object makes to entries that have
\* a version, in document order: the identity visited and the ancestor chain
\* it was reached through.
RECURSIVE Visits(_, _)
Visits(data, chain) ==
    IF data = <<>> THEN <<>>
    ELSE LET e == Head(data)
             id == e.name \o ":" \o (IF e.version = NoVersion THEN "" ELSE e.version)
         IN (IF e.version = NoVersion THEN <<>> ELSE <<[key |-> id, chain |-> chain]>>)
            \o Visits(e.deps, <<id>> \o chain)
            \o Visits(Tail(data), chain)

\* The visits of the dev walk and of the prod walk that setDependenciesList
\* made (none for a walk that was not run or whose output had no tree).
DevVisits ==
    IF hist.listings.devRun /\ hist.listings.dev.ok /\ hist.listings.dev.hasDeps
    THEN Visits(hist.listings.dev.deps, <<ModuleId>>) ELSE <<>>
ProdVisits ==
    IF hist.listings.prodRun /\ hist.listings.prod.ok /\ hist.listings.prod.hasDeps
    THEN Visits(hist.listings.prod.deps, <<ModuleId>>) ELSE <<>>

\* How often a walk visited k.
VisitCount(visits, k) == Cardinality({i \in 1..Len(visits) : visits[i].key = k})

\* C11: no node's scopes ever holds a scope twice, and a node's scopes are
\* exactly the scopes of the walks that visited it, so a dependency that is in
\* the dev and in the prod listing has dev once and prod once, however often
\* and in whatever order it was visited.
C11_ScopesHoldEachScopeOnce ==
    \A k \in DOMAIN dependencies :
        LET scopes == dependencies[k].scopes
        IN /\ \A i, j \in 1..Len(scopes) : scopes[i] = scopes[j] => i = j
           /\ {scopes[i] : i \in 1..Len(scopes)}
                = {sc \in {"dev", "prod"} :
                      VisitCount(IF sc = "dev" THEN DevVisits ELSE ProdVisits, k) > 0}

\* A dependency visited twice by the dev walk and also by the prod walk.
C11_Witness ==
    \E k \in DOMAIN dependencies :
        /\ VisitCount(DevVisits, k) >= 2
        /\ VisitCount(ProdVisits, k) >= 1
        /\ dependencies[k].scopes = <<"dev", "prod">>

\* Whether a "dependencies" object holds, at any depth, an entry without a
\* "version" field that has entries below it.
RECURSIVE HasUnversionedParent(_)
HasUnversionedParent(data) ==
    /\ data /= <<>>
    /\ \/ Head(data).version = NoVersion /\ Head(data).deps /= <<>>
       \/ HasUnversionedParent(Head(data).deps)
       \/ HasUnversionedParent(Tail(data))

\* The identities the walks that were run visited.
VisitedKeys ==
    {DevVisits[i].key : i \in 1..Len(DevVisits)}
        \cup {ProdVisits[i].key : i \in 1..Len(ProdVisits)}

\* C12: an entry without a version field is never inserted (the graph's keys
\* are exactly the identities of the entries that have one, and no node has an
\* empty version), and its absence is no error: when every listing walked was
\* a JSON object, setDependenciesList returns nil and run() goes on.
C12_UnversionedEntryIsSkippedSilently ==
    /\ DOMAIN dependencies = VisitedKeys
    /\ \A k \in DOMAIN dependencies :
          /\ dependencies[k].version /= ""
          /\ k = dependencies[k].name \o ":" \o dependencies[k].version
    /\ (pc /= "setDependenciesList" /\ hist.listings.dev.ok /\ hist.listings.prod.ok)
          => (pc = "collectDependenciesChecksums" /\ retErr = NilErr)

\* The prod walk went over a tree with an entry without version above other
\* entries, and the graph holds what was below it.
C12_Witness ==
    /\ pc = "collectDependenciesChecksums"
    /\ hist.listings.prodRun
    /\ HasUnversionedParent(hist.listings.prod.deps)
    /\ dependencies /= EmptyGraph

\* The distinct ancestor chains through which a walk reached k.
Chains(visits, k) == {visits[i].chain : i \in {j \in 1..Len(visits) : visits[j].key = k}}

\* C13 as stated: after setDependenciesList a node reachable through exactly N
\* distinct ancestor chains, over the walks that were run, has exactly N
\* pathToRoot entries.
C13_OneEntryPerDistinctChain ==
    \A k \in DOMAIN dependencies :
        Len(dependencies[k].pathToRoot)
            = Cardinality(Chains(DevVisits, k) \cup Chains(ProdVisits, k))

\* C13 amended: a node reachable through N distinct chains in the dev listing
\* and M in the prod listing has N + M pathToRoot entries, its dev chains first
\* (a chain that is in both listings is recorded twice).
C13_OneEntryPerChainAndWalk ==
    \A k \in DOMAIN dependencies :
        LET paths == dependencies[k].pathToRoot
            n == Cardinality(Chains(DevVisits, k))
            m == Cardinality(Chains(ProdVisits, k))
        IN /\ Len(paths) = n + m
           /\ {paths[i] : i \in 1..n} = Chains(DevVisits, k)
           /\ {paths[i] : i \in (n + 1)..(n + m)} = Chains(ProdVisits, k)

\* A node the dev walk reached through two chains and the prod walk through
\* one of them again: three entries for two distinct chains.
C13_Witness ==
    \E k \in DOMAIN dependencies :
        /\ Cardinality(Chains(DevVisits, k)) = 2
        /\ Cardinality(Chains(ProdVisits, k)) = 1
        /\ Chains(ProdVisits, k) \subseteq Chains(DevVisits, k)
        /\ Len(dependencies[k].pathToRoot) = 3

\* The walk of the scenario: the tree {a: {version 1.0.0, dependencies:
\* {b: {version 2.0.0}}}} parsed as prod only, from the root module.
ScenarioParsed ==
    /\ ~hist.listings.devRun
    /\ hist.listings.prodRun
    /\ hist.listings.prod = Listing(<<Entry("a", "1.0.0", <<Entry("b", "2.0.0", <<>>)>>)>>)

\* C14 as stated: a node's path entry starts with the node's own identity; in
\* the scenario a:1.0.0 gets [[a:1.0.0, R]] and b:2.0.0 gets
\* [[b:2.0.0, a:1.0.0, R]], R being the build module identity.
C14_PathStartsAtTheNode ==
    ScenarioParsed =>
        /\ DOMAIN dependencies = {"a:1.0.0", "b:2.0.0"}
        /\ dependencies["a:1.0.0"].scopes = <<"prod">>
        /\ dependencies["a:1.0.0"].pathToRoot = << <<"a:1.0.0", ModuleId>> >>
        /\ dependencies["b:2.0.0"].scopes = <<"prod">>
        /\ dependencies["b:2.0.0"].pathToRoot = << <<"b:2.0.0", "a:1.0.0", ModuleId>> >>

\* C14 amended: a node's path entry starts at its parent: a top-level node
\* gets the single-element path holding the build module identity, a nested
\* node gets its parent's identity prepended to an entry of its parent; in the
\* scenario a:1.0.0 gets [[R]] and b:2.0.0 gets [[a:1.0.0, R]].
C14_PathStartsAtTheParent ==
    /\ \A k \in DOMAIN dependencies :
          \A i \in 1..Len(dependencies[k].pathToRoot) :
              LET path == dependencies[k].pathToRoot[i]
              IN /\ path /= <<>>
                 /\ path[Len(path)] = ModuleId
                 /\ (Len(path) > 1 /\ path[1] \in DOMAIN dependencies)
                       => \E j \in 1..Len(dependencies[path[1]].pathToRoot) :
                              dependencies[path[1]].pathToRoot[j] = Tail(path)
    /\ ScenarioParsed =>
          /\ DOMAIN dependencies = {"a:1.0.0", "b:2.0.0"}
          /\ dependencies["a:1.0.0"].scopes = <<"prod">>
          /\ dependencies["a:1.0.0"].pathToRoot = << <<ModuleId>> >>
          /\ dependencies["b:2.0.0"].scopes = <<"prod">>
          /\ dependencies["b:2.0.0"].pathToRoot = << <<"a:1.0.0", ModuleId>> >>

\* The scenario was parsed and run() goes on with its two nodes.
C14_Witness ==
    /\ ScenarioParsed
    /\ pc = "collectDependenciesChecksums"
    /\ Cardinality(DOMAIN dependencies) = 2

\* The key and the value of a dump line "key = value".
KeyOf(line) == TrimSpace(SplitN2(line)[1])
ValueOf(line) == TrimSpace(SplitN2(line)[2])

\* Whether a dump line is a directive for key.
IsDirective(line, key) == Len(SplitN2(line)) = 2 /\ KeyOf(line) = key

\* The positions of the omit directives among the lines scanned so far.
OmitLines == {i \in 1..Len(hist.scanned) : IsDirective(hist.scanned[i], <<"o", "m", "i", "t">>)}

\* C15: when the lines scanned hold an omit directive, wherever it stands
\* among the only and production lines, the restriction is what omit (the last
\* one, if there are several) says: prod-only when its value contains dev, all
\* otherwise.
C15_OmitAloneDecides ==
    OmitLines /= {} =>
        LET last == CHOOSE i \in OmitLines : \A j \in OmitLines : j <= i
        IN typeRestriction = IF Contains(ValueOf(hist.scanned[last]), <<"d", "e", "v">>)
                             THEN prodOnly ELSE all

\* An omit directive without dev between an only line that had set dev-only
\* and a production line.
C15_Witness ==
    /\ Len(hist.scanned) = 3
    /\ IsDirective(hist.scanned[1], <<"o", "n", "l", "y">>)
    /\ Contains(ValueOf(hist.scanned[1]), <<"d", "e", "v">>)
    /\ OmitLines = {2}
    /\ IsDirective(hist.scanned[3], <<"p", "r", "o", "d", "u", "c", "t", "i", "o", "n">>)
    /\ typeRestriction = all

\* The restriction a line sets when the restriction is still the default one
\* (the default one when it sets none).
SetBy(line) ==
    IF IsDirective(line, <<"o", "n", "l", "y">>)
    THEN IF Contains(ValueOf(line), <<"p", "r", "o", "d">>) THEN prodOnly
         ELSE IF Contains(ValueOf(line), <<"d", "e", "v">>) THEN devOnly
         ELSE defaultRestriction
    ELSE IF IsDirective(line, <<"p", "r", "o", "d", "u", "c", "t", "i", "o", "n">>) /\ Contains(ValueOf(line), <<"t", "r", "u", "e">>)
         THEN prodOnly
         ELSE defaultRestriction

\* The positions of the lines scanned so far that set a restriction.
SettingLines == {i \in 1..Len(hist.scanned) : SetBy(hist.scanned[i]) /= defaultRestriction}

\* C16: with no omit directive among the lines scanned, the restriction is the
\* one set by the first line that sets one (the default when none does); and
\* once the restriction is not the default, scanning an only or a production
\* line leaves it as it is.
C16_FirstSettingLineDecides ==
    /\ [](OmitLines = {} =>
            typeRestriction =
                IF SettingLines = {} THEN defaultRestriction
                ELSE SetBy(hist.scanned[CHOOSE i \in SettingLines : \A j \in SettingLines : i <= j]))
    /\ [][(/\ typeRestriction /= defaultRestriction
            /\ Len(hist'.scanned) = Len(hist.scanned) + 1
            /\ \/ IsDirective(hist'.scanned[Len(hist'.scanned)], <<"o", "n", "l", "y">>)
               \/ IsDirective(hist'.scanned[Len(hist'.scanned)], <<"p", "r", "o", "d", "u", "c", "t", "i", "o", "n">>))
           => typeRestriction' = typeRestriction]_vars

\* Two lines that would set different restrictions were scanned, no omit, and
\* the first one's restriction stands.
C16_Witness ==
    /\ OmitLines = {}
    /\ Cardinality({SetBy(hist.scanned[i]) : i \in SettingLines}) = 2
    /\ typeRestriction = devOnly

\* The lines of a text: the pieces between the newlines.
RECURSIVE LinesOf(_)
LinesOf(text) ==
    IF \E i \in 1..Len(text) : text[i] = "\n"
    THEN LET i == CHOOSE i \in 1..Len(text) : text[i] = "\n" /\ \A j \in 1..(i - 1) : text[j] /= "\n"
         IN <<SubSeq(text, 1, i - 1)>> \o LinesOf(SubSeq(text, i + 1, Len(text)))
    ELSE <<text>>

\* The keys whose directives the project's configuration must not carry over.
Reserved(key) ==
    \/ key \in {<<"r", "e", "g", "i", "s", "t", "r", "y">>, <<"m", "e", "t", "r", "i", "c", "s", "-", "r", "e", "g", "i", "s", "t", "r", "y">>, <<"j", "s", "o", "n">>}
    \/ HasPrefix(key, <<"/", "/">>)
    \/ HasPrefix(key, <<";">>)
    \/ HasPrefix(key, <<"@">>)

\* C20: the document prepareConfigData returns ends with the json directive,
\* the registry directive naming the target registry and the auth directive,
\* in this order; before them it has no line with a reserved key other than a
\* scoped line of the dump rewritten to the target registry, and no line of the
\* dump with a reserved key is in it as it was.
C20_ReservedKeysComeLastAndOnce ==
    pc = "removeNpmrcIfExists" =>
        LET lines == LinesOf(Join(filteredConf))
            n == Len(lines)
        IN /\ n >= 3
           /\ lines[n - 2] \in {<<"j", "s", "o", "n", " ", "=", " ">> \o FormatBool(b) : b \in BOOLEAN}
           /\ lines[n - 1] = <<"r", "e", "g", "i", "s", "t", "r", "y", " ", "=", " ">> \o Registry
           /\ lines[n] = NpmAuth
           /\ \A i \in 1..(n - 3) :
                 Reserved(KeyOf(lines[i])) =>
                     \E j \in 1..Len(hist.scanned) :
                         /\ HasPrefix(hist.scanned[j], <<"@">>)
                         /\ lines[i] = SplitN2(hist.scanned[j])[1] \o <<" ", "=", " ">> \o Registry
           /\ \A j \in 1..Len(hist.scanned) :
                 Reserved(KeyOf(hist.scanned[j])) =>
                     \A i \in 1..(n - 3) : lines[i] /= hist.scanned[j]

\* A dump with a json line, a scoped line and a line that is copied was
\* translated: the document has the copied line, the rewritten scoped line
\* and the three closing directives.
C20_Witness ==
    /\ pc = "removeNpmrcIfExists"
    /\ \E i, j, k \in 1..Len(hist.scanned) :
          /\ KeyOf(hist.scanned[i]) = <<"j", "s", "o", "n">>
          /\ HasPrefix(hist.scanned[j], <<"@">>)
          /\ IsDirective(hist.scanned[k], <<"o", "n", "l", "y">>)
    /\ Len(LinesOf(Join(filteredConf))) = 5

\* C17: when npm config list fails, createTempNpmrc fails: run() does not go
\* on to install/ci, no .npmrc is written from what the failed dump gave, and
\* what run() returns is an error.
C17_ConfigListFailurePropagates ==
    hist.configListFailed =>
        /\ hist.failedAt = "createTempNpmrc"
        /\ \A i \in 1..Len(hist.stages) : hist.stages[i] /= "runInstallOrCi"
        /\ pc = "restoreNpmrcAndError" => npmrc = npmrcPre
        /\ pc = "returned" => retErr /= NilErr

\* Whether the output of a walk that was run was no JSON object.
WalkedNoObject ==
    \/ hist.listings.devRun /\ ~hist.listings.dev.ok
    \/ hist.listings.prodRun /\ ~hist.listings.prod.ok

\* C18: setDependenciesList fails exactly when the output of a walk it ran is
\* no JSON object; that an npm ls exited non-zero or wrote to stderr makes no
\* difference, the output it printed is parsed.
C18_ListingFailureIsOnlyWarned ==
    /\ hist.failedAt = "setDependenciesList" <=> WalkedNoObject
    /\ (hist.listingFailed /\ ~WalkedNoObject /\ pc /= "setDependenciesList")
          => DOMAIN dependencies = VisitedKeys

\* An npm ls failed, its output was parsed, and run() went through
\* enrichment and assembly and returned without error.
C18_Witness ==
    /\ hist.listingFailed
    /\ dependencies /= EmptyGraph
    /\ manifest.saved
    /\ pc = "returned"
    /\ retErr = NilErr

\* C19: when a step of preparePrerequisites fails, run() returns that step's
\* error at once: the project .npmrc is as it was, neither install/ci nor the
\* restore function nor any other stage has run.
C19_PrerequisiteFailureTouchesNothing ==
    hist.failedAt = "preparePrerequisites" =>
        /\ pc = "returned"
        /\ \E step \in PrerequisiteSteps : retErr = <<step>>
        /\ npmrc = npmrcPre
        /\ hist.restoreCalls = 0
        /\ hist.stages = <<"preparePrerequisites">>

\* The authentication step rejected the server details while the project
\* had a .npmrc of its own.
C19_Witness ==
    /\ hist.failedAt = "preparePrerequisites"
    /\ retErr = <<"setArtifactoryAuth">>
    /\ npmrcPre = Orig
    /\ npmrc = Orig

\* Whether some node of the graph has the scope.
SomeNodeHasScope(scope) ==
    \E k \in DOMAIN dependencies :
        \E i \in 1..Len(dependencies[k].scopes) : dependencies[k].scopes[i] = scope

\* C21: once setDependenciesList has returned, the walks it ran are the prod
\* walk alone under prod-only (no node has scope dev), the dev walk alone under
\* dev-only (no node has scope prod), and otherwise the dev walk and then the
\* prod walk, unless the dev walk returned an error: then the prod walk was
\* not run and the error is returned. The graph holds what these walks
\* visited and nothing else.
C21_WalksFollowTheRestriction ==
    pc /= "setDependenciesList" =>
        /\ typeRestriction = prodOnly =>
              hist.listings.walks = <<"prod">> /\ ~SomeNodeHasScope("dev")
        /\ typeRestriction = devOnly =>
              hist.listings.walks = <<"dev">> /\ ~SomeNodeHasScope("prod")
        /\ typeRestriction \in {defaultRestriction, all} =>
              IF hist.listings.dev.ok
              THEN hist.listings.walks = <<"dev", "prod">>
              ELSE /\ hist.listings.walks = <<"dev">>
                   /\ pc = "returned"
                   /\ retErr /= NilErr
                   /\ dependencies = EmptyGraph
        /\ DOMAIN dependencies = VisitedKeys

\* Under prod-only a tree was walked and every node of the graph has the
\* scope prod alone.
C21_Witness ==
    /\ pc = "collectDependenciesChecksums"
    /\ typeRestriction = prodOnly
    /\ dependencies /= EmptyGraph
    /\ \A k \in DOMAIN dependencies : dependencies[k].scopes = <<"prod">>

\* The stages that parse the tree, enrich the graph and save the manifest.
BuildInfoStages ==
    {"setDependenciesList", "collectDependenciesChecksums", "Run", "saveDependenciesData"}

\* The positions in hist.stages of the build-info stages entered so far.
BuildInfoEntered == {i \in 1..Len(hist.stages) : hist.stages[i] \in BuildInfoStages}

\* C22: in a run that got past preparePrerequisites the restore function is
\* invoked, and never a second time: run() has invoked it exactly once when it
\* returns, whatever createTempNpmrc and runInstallOrCi did; every build-info
\* stage is entered only after that one invocation, which succeeded; and when
\* the restore on the success path fails, run() returns its error with no
\* build-info stage entered and nothing handed on.
C22_RestoreOnceBeforeBuildInfo ==
    /\ [](/\ hist.restoreCalls <= 1
          /\ (pc = "returned" /\ PastPrerequisites) => hist.restoreCalls = 1
          /\ \A i \in BuildInfoEntered :
                /\ \E j \in 1..(i - 1) : hist.stages[j] = "restoreNpmrc"
                /\ hist.restoreCalls = 1
                /\ ~hist.restoreFailed
          /\ hist.failedAt = "restoreNpmrc" =>
                /\ pc = "returned"
                /\ retErr = RestoreErr
                /\ BuildInfoEntered = {}
                /\ dependencies = EmptyGraph
                /\ manifest = NoManifest)
    /\ (pc = "createTempNpmrc" ~> hist.restoreCalls = 1)

\* run() restored .npmrc once, went through the three build-info stages and
\* returned.
C22_Witness ==
    /\ pc = "returned"
    /\ hist.restoreCalls = 1
    /\ manifest.saved
    /\ \E i \in BuildInfoEntered : hist.stages[i] = "saveDependenciesData"

\* C23: in every pathToRoot chain of every node the last identity is the build
\* module's and every other one is the key of a node of the graph, also below
\* a tree entry that has no version field.
C23_ChainsNameGraphNodes ==
    \A k \in DOMAIN dependencies :
        \A i \in 1..Len(dependencies[k].pathToRoot) :
            LET chain == dependencies[k].pathToRoot[i]
            IN /\ chain /= <<>>
               /\ chain[Len(chain)] = ModuleId
               /\ \A j \in 1..(Len(chain) - 1) : chain[j] \in DOMAIN dependencies

\* C24: when collectDependenciesChecksums returns an error (a lookup failed
\* with something else than not-found), run() returns that error and
\* saveDependenciesData is not called: no list is built, saved or reported.
C24_CollectErrorSavesNothing ==
    hist.collect.err /= NilErr =>
        /\ pc = "returned"
        /\ retErr = hist.collect.err
        /\ \E i \in 1..Len(hist.taskErrors) : hist.taskErrors[i] = retErr
        /\ hist.failedAt = "Run"
        /\ \A i \in 1..Len(hist.stages) : hist.stages[i] /= "saveDependenciesData"
        /\ manifest = NoManifest

\* One lookup failed and another node got its checksum; run() returned the
\* failure and handed nothing on.
C24_Witness ==
    /\ hist.collect.err /= NilErr
    /\ pc = "returned"
    /\ \E k \in DOMAIN dependencies : dependencies[k].checksum /= NilChecksum
    /\ manifest = NoManifest

\* The pool phase is over: Run() returned, the producer signalled Done, the
\* channel is empty, every consumer has left and every key's task ran once.
PoolDrained ==
    /\ hist.collect.returned
    /\ producer = "done"
    /\ tasksClosed
    /\ tasks = <<>>
    /\ \A w \in DOMAIN workers : workers[w].st = "exited"
    /\ \A k \in hist.keysAtStart : hist.executed[k] = 1

\* C25: with a thread count of at least 1 the pool has that many consumers,
\* no task function runs twice for a key, the producer has created exactly one
\* task per key when it signals Done, and the pool phase always ends drained,
\* whatever the size of the graph and the interleaving of producer and
\* consumers.
C25_PositiveThreadsTerminate ==
    /\ []((threads >= 1 /\ pc = "Run") => Len(workers) = threads)
    /\ [](threads >= 1 => \A k \in hist.keysAtStart : hist.executed[k] <= 1)
    /\ []((threads >= 1 /\ producer = "done") =>
            /\ Len(hist.created) = Cardinality(hist.keysAtStart)
            /\ {hist.created[i] : i \in 1..Len(hist.created)} = hist.keysAtStart)
    /\ (threads >= 1 /\ pc = "Run") ~> PoolDrained

\* A graph with more keys than the channel holds went through a pool of one
\* consumer.
C25_Witness ==
    /\ threads = 1
    /\ PoolDrained
    /\ Cardinality(hist.keysAtStart) > TasksCapacity


====
